---- MODULE Spec2Model ----
(***************************************************************************)
(* Townspark backend: the issue workflow (four-state variant, app          *)
(* "issues" with the resolver endpoints of app "accounts") and the         *)
(* engagement layer (upvotes, bookmarks, comments, comment likes) as a     *)
(* state machine over the relational store.  One action is one request,    *)
(* run to completion.                                                      *)
(***************************************************************************)
EXTENDS Integers, Sequences, FiniteSets, TLC

(***************************************************************************)
(* Bounds of the model.                                                    *)
(***************************************************************************)
MaxIssues == 2          \* Issue rows created
MaxTimelineRows == 3    \* IssueTimeline rows in the table
MaxComments == 2        \* Comment rows ever created
MaxLikesInput == 2      \* largest "likes" value sent in a comment update
MaxCreatedIssues == 1   \* rows of the issue app's Issue ever created
MaxProgress == 2        \* Progress rows ever created
MaxShares == 1          \* a share is sent while share_count is below this
MaxThread == 3          \* Comment rows ever created in the thread of replies
MaxClock == 2           \* issues are reported while now is below this
MaxNotifications == 2   \* Notification rows ever created

(***************************************************************************)
(* Program constants.                                                      *)
(***************************************************************************)
FirstIssueNumber == 1000            \* Issue.generate_issue_id: TS-1000
HTTP_200_OK == 200
HTTP_201_CREATED == 201
HTTP_400_BAD_REQUEST == 400
HTTP_403_FORBIDDEN == 403
HTTP_404_NOT_FOUND == 404
HTTP_405_METHOD_NOT_ALLOWED == 405
HTTP_409_CONFLICT == 409
HTTP_500_INTERNAL_SERVER_ERROR == 500

\* Issue.Status choices
Statuses == {"reported", "acknowledged", "in-progress", "resolved"}
\* what a client may send as "status": the choices and a value outside them
StatusInputs == Statuses \cup {"closed"}
\* what a client may send as "note" / "resolution_note"
Notes == {"", "n"}

(***************************************************************************)
(* The user table.  A row is fixed per id; which ids exist is state.       *)
(*   c1, c2  citizens registered through djoser                            *)
(*   r1, r2  resolvers registered through ResolverCreateSerializer         *)
(*   a1      superuser (create_superuser: is_staff and is_superuser)       *)
(***************************************************************************)
Users == {"c1", "c2", "r1", "r2", "a1"}
NoUser == "null"
GhostUser == "ghost"    \* a primary key that names no user row

role(u) == IF u \in {"r1", "r2"} THEN "resolver" ELSE "citizen"
is_staff(u) == u = "a1"
is_superuser(u) == u = "a1"
has_resolver_profile(u) == u \in {"r1", "r2"}

NULL == 0               \* a null DateTimeField or ForeignKey; stamps and ids are >= 1

VARIABLES
    users,          \* ids of the existing User rows
    is_verified,    \* ResolverProfile.is_verified, per resolver
    now,            \* the last value timezone.now() returned
    issues,         \* Issue rows: issue id -> record
    timeline,       \* IssueTimeline rows per issue, ordered by created_at
    official,       \* OfficialResponse rows: <<issue, responder>>
    upvotes,        \* Upvote rows: <<user, issue>>
    bookmarks,      \* Bookmark rows: <<user, issue>>
    comments,       \* Comment rows: comment id -> record
    likes,          \* CommentLike rows: <<user, comment>>
    nextComment,    \* number of Comment rows created so far (fresh uuid4)
    notifications,  \* Notification rows: notification id -> record
    nextNotification, \* number of Notification rows created so far (fresh uuid4)
    created_issues, \* rows of the issue app's Issue (table "issues"): pk -> record
    progress_updates, \* rows of Progress (table "progress"): pk -> record
    pk_seq,         \* the last pk the two tables of the issue and progress apps gave
    inflight,       \* per user, the request between two of its statements
    issued,         \* history: every id generate_issue_id has returned
    prev,           \* the last request when it was a toggle, with what it found
    run             \* the current run of accept requests on one issue

vars == <<users, is_verified, now, issues, timeline, official, upvotes,
          bookmarks, comments, likes, nextComment, notifications,
          nextNotification, created_issues, progress_updates, pk_seq, inflight,
          issued, prev, run>>

NoToggle == [op |-> "none"]
NoRequest == [op |-> "none", pc |-> "returned"]
NoRun == [issue |-> 0, start_assigned |-> FALSE, first |-> "none", n_ok |-> 0,
          n_req |-> 0, winner |-> "null", won |-> <<>>]

\* the response envelope: HTTP status and error_code
Reply(code, err) == [code |-> code, err |-> err]
Success(r) == r.code \in {HTTP_200_OK, HTTP_201_CREATED}

(***************************************************************************)
(* Permission classes.                                                     *)
(***************************************************************************)
\* issues/permissions.py IsResolverOrAdmin.has_permission, for an
\* authenticated user
IsResolverOrAdmin(u) ==
    IF is_staff(u) \/ is_superuser(u) THEN TRUE
    ELSE IF role(u) = "resolver" THEN TRUE
    ELSE IF has_resolver_profile(u) THEN is_verified[u]
    ELSE FALSE

\* rest_framework IsAdminUser
IsAdminUser(u) == is_staff(u)

\* accounts/views.py: "user.role != UserRole.RESOLVER and not user.is_staff"
AccessDenied(u) == role(u) # "resolver" /\ ~is_staff(u)

\* IssueViewSet.get_permissions: the permission classes instantiated for an
\* action.  The method does not consult self.permission_classes, so the
\* classes an @action decorator names are not among them.
get_permissions(action) ==
    IF action \in {"list", "retrieve"} THEN {"AllowAny"}
    ELSE IF action = "create" THEN {"IsAuthenticated"}
    ELSE IF action \in {"update", "partial_update", "destroy"}
         THEN {"IsAuthenticated", "IsOwnerOrReadOnly"}
    ELSE {"IsAuthenticated"}

\* has_permission of each class (IsOwnerOrReadOnly only defines
\* has_object_permission)
has_permission(cls, u) ==
    CASE cls = "AllowAny" -> TRUE
      [] cls = "IsAuthenticated" -> u \in users
      [] cls = "IsOwnerOrReadOnly" -> TRUE
      [] cls = "IsResolverOrAdmin" -> IsResolverOrAdmin(u)
      [] cls = "IsAdminUser" -> IsAdminUser(u)

\* APIView.check_permissions
check_permissions(action, u) ==
    \A cls \in get_permissions(action) : has_permission(cls, u)

(***************************************************************************)
(* Issue rows.                                                             *)
(***************************************************************************)
IssueIds == DOMAIN issues

Extend(f, k, v) == [x \in (DOMAIN f) \cup {k} |-> IF x = k THEN v ELSE f[x]]

RECURSIVE SumLen(_, _)
SumLen(f, S) == IF S = {} THEN 0
                ELSE LET k == CHOOSE x \in S : TRUE
                     IN  Len(f[k]) + SumLen(f, S \ {k})

\* the model's bound on the IssueTimeline table
RoomInTimeline == SumLen(timeline, DOMAIN timeline) < MaxTimelineRows

\* Issue.generate_issue_id: the number of the most recently created issue
\* plus one, 1000 when there is none
generate_issue_id ==
    IF IssueIds = {} THEN FirstIssueNumber
    ELSE LET last == CHOOSE i \in IssueIds :
                        \A j \in IssueIds : issues[j].created_at <= issues[i].created_at
         IN  last + 1

NewIssue(u, t) ==
    [status |-> "reported", resolved_at |-> NULL, reporter |-> u,
     assigned_resolver |-> NoUser, upvote_count |-> 0, comment_count |-> 0,
     share_count |-> 0, urgency |-> "normal", created_at |-> t]

\* a note: a text, and the user whose full_name is formatted into it
Note(text, name) == [text |-> text, name |-> name]

TimelineRow(s, n, u) == [status |-> s, note |-> n, updated_by |-> u]

\* variant: the first row without its actor
InitialTimelineRow_NoActor(u) == TimelineRow("reported", Note("Issue reported", NoUser), NoUser)

\* the row IssueCreateSerializer.create adds
InitialTimelineRow(u) == TimelineRow("reported", Note("Issue reported", NoUser), u)

Append1(i, row) == [timeline EXCEPT ![i] = Append(@, row)]

(***************************************************************************)
(* The store before any issue: no resolver is verified.                    *)
(***************************************************************************)
InitStore(registered) ==
    /\ users = registered
    /\ is_verified = [u \in {x \in Users : has_resolver_profile(x)} |-> FALSE]
    /\ now = 0
    /\ issues = <<>>
    /\ timeline = <<>>
    /\ official = {}
    /\ upvotes = {}
    /\ bookmarks = {}
    /\ comments = <<>>
    /\ likes = {}
    /\ nextComment = 0
    /\ notifications = <<>>
    /\ nextNotification = 0
    /\ created_issues = <<>>
    /\ progress_updates = <<>>
    /\ pk_seq = [issues |-> 0, progress |-> 0]
    /\ inflight = [u \in Users |-> NoRequest]
    /\ issued = {}
    /\ prev = NoToggle
    /\ run = NoRun

\* the workflow specifications: a citizen, two resolvers and an admin
Init == InitStore({"c1", "r1", "r2", "a1"})

\* POST /issues/ (IssueViewSet.create, IssueCreateSerializer.create)
CreateIssue(u) ==
    /\ u \in users
    /\ Cardinality(IssueIds) < MaxIssues
    /\ RoomInTimeline
    /\ LET id == generate_issue_id
       IN  /\ issues' = Extend(issues, id, NewIssue(u, now + 1))
           /\ timeline' = Extend(timeline, id, <<InitialTimelineRow(u)>>)
    /\ issued' = issued \cup {generate_issue_id}
    /\ now' = now + 1
    /\ UNCHANGED <<notifications, nextNotification>>
    /\ UNCHANGED <<created_issues, progress_updates, pk_seq, inflight>>
    /\ prev' = NoToggle
    /\ run' = NoRun
    /\ UNCHANGED <<users, is_verified, official, upvotes, bookmarks, comments,
                   likes, nextComment>>

(***************************************************************************)
(* PATCH /issues/{id}/status/ (IssueViewSet.update_status)                 *)
(***************************************************************************)
UpdateStatusReply(u, i, s) ==
    IF ~check_permissions("update_status", u)
    THEN Reply(HTTP_403_FORBIDDEN, "PERMISSION_DENIED")
    ELSE IF s \notin Statuses THEN Reply(HTTP_400_BAD_REQUEST, "VALIDATION_ERROR")
    ELSE Reply(HTTP_200_OK, "")

\* lines 212-213: resolved_at is stamped when the new status is resolved
ResolvedAtAfterUpdate(iss, s, t) ==
    IF s = "resolved" THEN t ELSE iss.resolved_at

\* variant: the row repeats the status the issue had
UpdateStatusTimelineStatus_Old(iss, s) == iss.status

\* line 219: the status of the timeline row update_status creates
UpdateStatusTimelineStatus(iss, s) == s

\* u is the user of the request's token; a token of no existing user is
\* turned down by IsAuthenticated
UpdateStatus(u, i, s, n) ==
    /\ i \in IssueIds
    /\ \/ /\ ~Success(UpdateStatusReply(u, i, s))
          /\ UNCHANGED <<issues, timeline, now>>
       \/ /\ Success(UpdateStatusReply(u, i, s))
          /\ RoomInTimeline
          /\ now' = IF s = "resolved" THEN now + 1 ELSE now
          /\ issues' = [issues EXCEPT ![i] =
                 [@ EXCEPT !.status = s,
                           !.resolved_at = ResolvedAtAfterUpdate(issues[i], s, now + 1)]]
          /\ timeline' = Append1(i, TimelineRow(UpdateStatusTimelineStatus(issues[i], s),
                                                Note(n, NoUser), u))
    /\ UNCHANGED <<notifications, nextNotification>>
    /\ UNCHANGED <<created_issues, progress_updates, pk_seq, inflight, issued>>
    /\ prev' = NoToggle
    /\ run' = NoRun
    /\ UNCHANGED <<users, is_verified, official, upvotes, bookmarks, comments,
                   likes, nextComment>>

(***************************************************************************)
(* POST /resolver/issues/{pk}/accept/ (ResolverAcceptIssueView.post)       *)
(***************************************************************************)
\* the run of accept requests on issue i, continued by one more request:
\* whether the issue was assigned when the run began, the outcome of the
\* first accept of a user who passes the role check, the successes and the
\* requests (each counted up to 2), and, for the first success, who sent it
\* and the issue row and timeline it left (after)
RunAfter(u, i, permitted, ok, after) ==
    LET base == IF run.issue = i THEN run
                ELSE [NoRun EXCEPT
                        !.issue = i,
                        !.start_assigned = issues[i].assigned_resolver # NoUser]
    IN  [base EXCEPT
           !.first = IF permitted /\ @ = "none"
                     THEN (IF ok THEN "ok" ELSE "fail") ELSE @,
           !.n_ok = IF ok /\ @ < 2 THEN @ + 1 ELSE @,
           !.n_req = IF @ < 2 THEN @ + 1 ELSE @,
           !.winner = IF ok /\ base.n_ok = 0 THEN u ELSE @,
           !.won = IF ok /\ base.n_ok = 0 THEN after ELSE @]

\* variant: accept without the assigned_resolver test of line 407
AcceptReply_NoAssignedCheck(u, i) ==
    IF AccessDenied(u) THEN Reply(HTTP_403_FORBIDDEN, "PERMISSION_DENIED")
    ELSE Reply(HTTP_200_OK, "")

AcceptReply(u, i) ==
    IF AccessDenied(u) THEN Reply(HTTP_403_FORBIDDEN, "PERMISSION_DENIED")
    ELSE IF issues[i].assigned_resolver # NoUser
         THEN Reply(HTTP_400_BAD_REQUEST, "ALREADY_ASSIGNED")
    ELSE Reply(HTTP_200_OK, "")

\* line 415: the status accept writes
AcceptStatus(iss) == "acknowledged"

Accept(u, i) ==
    /\ u \in users
    /\ i \in IssueIds
    /\ \/ /\ ~Success(AcceptReply(u, i))
          /\ UNCHANGED <<issues, timeline>>
       \/ /\ Success(AcceptReply(u, i))
          /\ RoomInTimeline
          /\ issues' = [issues EXCEPT ![i] =
                 [@ EXCEPT !.assigned_resolver = u,
                           !.status = AcceptStatus(issues[i])]]
          /\ timeline' = Append1(i, TimelineRow("acknowledged",
                                                Note("Issue accepted by", u), u))
    /\ UNCHANGED <<notifications, nextNotification>>
    /\ UNCHANGED <<created_issues, progress_updates, pk_seq, inflight, issued>>
    /\ prev' = NoToggle
    /\ UNCHANGED <<users, is_verified, now, official, upvotes, bookmarks,
                   comments, likes, nextComment>>

\* an accept request with the run of accepts recorded, and without
AcceptInRun(u, i) ==
    /\ Accept(u, i)
    /\ run' = RunAfter(u, i, ~AccessDenied(u), Success(AcceptReply(u, i)),
                       <<issues'[i], timeline'[i]>>)

AcceptOutsideRun(u, i) == Accept(u, i) /\ run' = NoRun

(***************************************************************************)
(* POST /resolver/issues/{pk}/complete/ (ResolverCompleteIssueView.post)   *)
(***************************************************************************)
CompleteReply(u, i) ==
    IF AccessDenied(u) THEN Reply(HTTP_403_FORBIDDEN, "PERMISSION_DENIED")
    ELSE IF issues[i].assigned_resolver # u /\ ~is_staff(u)
         THEN Reply(HTTP_403_FORBIDDEN, "PERMISSION_DENIED")
    ELSE Reply(HTTP_200_OK, "")

\* line 472: resolution_note or "Issue resolved"
ResolutionNote(n) == IF n = "" THEN Note("Issue resolved", NoUser) ELSE Note(n, NoUser)

Complete(u, i, n) ==
    /\ u \in users
    /\ i \in IssueIds
    /\ \/ /\ ~Success(CompleteReply(u, i))
          /\ UNCHANGED <<issues, timeline, now>>
       \/ /\ Success(CompleteReply(u, i))
          /\ RoomInTimeline
          /\ now' = now + 1
          /\ issues' = [issues EXCEPT ![i] =
                 [@ EXCEPT !.status = "resolved", !.resolved_at = now + 1]]
          /\ timeline' = Append1(i, TimelineRow("resolved", ResolutionNote(n), u))
    /\ UNCHANGED <<notifications, nextNotification>>
    /\ UNCHANGED <<created_issues, progress_updates, pk_seq, inflight, issued>>
    /\ prev' = NoToggle
    /\ run' = NoRun
    /\ UNCHANGED <<users, is_verified, official, upvotes, bookmarks, comments,
                   likes, nextComment>>

(***************************************************************************)
(* POST /issues/{id}/assign/ (IssueViewSet.assign)                         *)
(***************************************************************************)
AssignReply(u, i, rid) ==
    IF ~check_permissions("assign", u)
    THEN Reply(HTTP_403_FORBIDDEN, "PERMISSION_DENIED")
    ELSE IF rid \notin users THEN Reply(HTTP_404_NOT_FOUND, "NOT_FOUND")
    ELSE Reply(HTTP_200_OK, "")

\* variant: an assignment row that says acknowledged, as accept's does
AssignTimelineStatus_Acknowledged(iss) == "acknowledged"

\* line 254: the timeline row of an assignment repeats the issue's status
AssignTimelineStatus(iss) == iss.status

Assign(u, i, rid) ==
    /\ u \in users
    /\ i \in IssueIds
    /\ \/ /\ ~Success(AssignReply(u, i, rid))
          /\ UNCHANGED <<issues, timeline>>
       \/ /\ Success(AssignReply(u, i, rid))
          /\ RoomInTimeline
          /\ issues' = [issues EXCEPT ![i] = [@ EXCEPT !.assigned_resolver = rid]]
          /\ timeline' = Append1(i, TimelineRow(AssignTimelineStatus(issues[i]),
                                                Note("Assigned to", rid), u))
    /\ UNCHANGED <<notifications, nextNotification>>
    /\ UNCHANGED <<created_issues, progress_updates, pk_seq, inflight, issued>>
    /\ prev' = NoToggle
    /\ run' = NoRun
    /\ UNCHANGED <<users, is_verified, now, official, upvotes, bookmarks,
                   comments, likes, nextComment>>

(***************************************************************************)
(* POST /issues/{id}/official-response/ (IssueViewSet.official_response)   *)
(***************************************************************************)
OfficialResponseReply(u, i) ==
    IF ~check_permissions("official_response", u)
    THEN Reply(HTTP_403_FORBIDDEN, "PERMISSION_DENIED")
    ELSE IF \E o \in official : o[1] = i
         THEN Reply(HTTP_409_CONFLICT, "DUPLICATE_ENTRY")
    ELSE Reply(HTTP_200_OK, "")

OfficialResponse(u, i) ==
    /\ u \in users
    /\ i \in IssueIds
    /\ \/ /\ ~Success(OfficialResponseReply(u, i))
          /\ UNCHANGED official
       \/ /\ Success(OfficialResponseReply(u, i))
          /\ official' = official \cup {<<i, u>>}
    /\ UNCHANGED <<notifications, nextNotification>>
    /\ UNCHANGED <<created_issues, progress_updates, pk_seq, inflight, issued>>
    /\ prev' = NoToggle
    /\ run' = NoRun
    /\ UNCHANGED <<users, is_verified, now, issues, timeline, upvotes, bookmarks,
                   comments, likes, nextComment>>

(***************************************************************************)
(* POST /admin/resolvers/{pk}/verify/ (AdminResolverVerifyView.post)       *)
(***************************************************************************)
VerifyReply(u, r) ==
    IF ~IsAdminUser(u) THEN Reply(HTTP_403_FORBIDDEN, "PERMISSION_DENIED")
    ELSE IF ~(r \in users /\ role(r) = "resolver")
         THEN Reply(HTTP_404_NOT_FOUND, "NOT_FOUND")
    ELSE IF ~has_resolver_profile(r) THEN Reply(HTTP_404_NOT_FOUND, "NOT_FOUND")
    ELSE Reply(HTTP_200_OK, "")

Verify(u, r, approved) ==
    /\ u \in users
    /\ \/ /\ ~Success(VerifyReply(u, r))
          /\ UNCHANGED is_verified
       \/ /\ Success(VerifyReply(u, r))
          /\ is_verified' = IF approved THEN [is_verified EXCEPT ![r] = TRUE]
                            ELSE is_verified
    /\ UNCHANGED <<notifications, nextNotification>>
    /\ UNCHANGED <<created_issues, progress_updates, pk_seq, inflight, issued>>
    /\ prev' = NoToggle
    /\ run' = NoRun
    /\ UNCHANGED <<users, now, issues, timeline, official, upvotes, bookmarks,
                   comments, likes, nextComment>>

(***************************************************************************)
(* Engagement: upvotes, bookmarks, comments and comment likes.             *)
(***************************************************************************)
\* what a toggle found and answered: whether the row existed, the counter
\* before it, the active flag of its response
Snapshot(member, count, flag) == [member |-> member, count |-> count, flag |-> flag]

\* the last toggle and, when the request before it was the same toggle by
\* the same user on the same target, that one before it
ToggleAfter(op, u, t, snap) ==
    [op |-> op, user |-> u, target |-> t,
     seq |-> IF prev.op = op /\ prev.user = u /\ prev.target = t
             THEN <<prev.seq[Len(prev.seq)], snap>>
             ELSE <<snap>>]

\* Issue.update_upvote_count: self.upvotes.count()
UpvoteRows(rows, i) == {x \in rows : x[2] = i}

\* variant: the stored counter moved by one towards the number of rows
update_upvote_count_ByOne(iss, i, rows) ==
    [iss EXCEPT ![i].upvote_count =
        IF Cardinality(UpvoteRows(rows, i)) > @ THEN @ + 1
        ELSE IF @ > 0 THEN @ - 1 ELSE 0]

update_upvote_count(iss, i, rows) ==
    [iss EXCEPT ![i].upvote_count = Cardinality(UpvoteRows(rows, i))]

\* Issue.update_comment_count: self.comments.count()
CommentRows(cs, i) == {c \in DOMAIN cs : cs[c].issue = i}
update_comment_count(iss, i, cs) ==
    [iss EXCEPT ![i].comment_count = Cardinality(CommentRows(cs, i))]

\* Comment.update_like_count: self.likes.count()
LikeRows(rows, c) == {x \in rows : x[2] = c}
update_like_count(cs, c, rows) ==
    [cs EXCEPT ![c].like_count = Cardinality(LikeRows(rows, c))]

\* get_or_create followed by delete when the row existed
ToggleRow(rows, row) == IF row \in rows THEN rows \ {row} ELSE rows \cup {row}

(***************************************************************************)
(* POST /issues/{id}/upvote/ (IssueViewSet.upvote)                         *)
(***************************************************************************)
Upvote(u, i) ==
    /\ u \in users /\ i \in IssueIds
    /\ check_permissions("upvote", u)
    /\ upvotes' = ToggleRow(upvotes, <<u, i>>)
    /\ issues' = update_upvote_count(issues, i, upvotes')
    /\ UNCHANGED <<notifications, nextNotification>>
    /\ UNCHANGED <<created_issues, progress_updates, pk_seq, inflight, issued>>
    /\ prev' = ToggleAfter("upvote", u, i,
                   Snapshot(<<u, i>> \in upvotes, issues[i].upvote_count,
                            <<u, i>> \notin upvotes))
    /\ run' = NoRun
    /\ UNCHANGED <<users, is_verified, now, timeline, official, bookmarks,
                   comments, likes, nextComment>>

(***************************************************************************)
(* POST /issues/{id}/bookmark/ (IssueViewSet.bookmark)                     *)
(***************************************************************************)
Bookmark(u, i) ==
    /\ u \in users /\ i \in IssueIds
    /\ check_permissions("bookmark", u)
    /\ bookmarks' = ToggleRow(bookmarks, <<u, i>>)
    /\ UNCHANGED <<notifications, nextNotification>>
    /\ UNCHANGED <<created_issues, progress_updates, pk_seq, inflight, issued>>
    /\ prev' = ToggleAfter("bookmark", u, i,
                   Snapshot(<<u, i>> \in bookmarks, 0, <<u, i>> \notin bookmarks))
    /\ run' = NoRun
    /\ UNCHANGED <<users, is_verified, now, issues, timeline, official, upvotes,
                   comments, likes, nextComment>>

(***************************************************************************)
(* POST /comments/{pk}/like/ (CommentLikeView.post)                        *)
(***************************************************************************)
CommentLike(u, c) ==
    /\ u \in users /\ c \in DOMAIN comments
    /\ likes' = ToggleRow(likes, <<u, c>>)
    /\ comments' = update_like_count(comments, c, likes')
    /\ UNCHANGED <<notifications, nextNotification>>
    /\ UNCHANGED <<created_issues, progress_updates, pk_seq, inflight, issued>>
    /\ prev' = ToggleAfter("like", u, c,
                   Snapshot(<<u, c>> \in likes, comments[c].like_count,
                            <<u, c>> \notin likes))
    /\ run' = NoRun
    /\ UNCHANGED <<users, is_verified, now, issues, timeline, official, upvotes,
                   bookmarks, nextComment>>

(***************************************************************************)
(* POST /issues/{issue_pk}/comments/ (CommentViewSet.create)               *)
(***************************************************************************)
NoParent == 0

\* the columns of a Comment row that a counter or a cascade depends on
NewComment(u, i, p) ==
    [issue |-> i, author |-> u, parent |-> p, like_count |-> 0,
     content |-> "sent"]

\* CommentCreateSerializer takes any UUID as parent_id; a parent_id that
\* names no Comment row fails the foreign key when the row is inserted
CommentCreateReply(u, i, p) ==
    IF p # NoParent /\ p \notin DOMAIN comments
    THEN Reply(HTTP_500_INTERNAL_SERVER_ERROR, "IntegrityError")
    ELSE Reply(HTTP_201_CREATED, "")

CommentCreate(u, i, p) ==
    /\ u \in users /\ i \in IssueIds
    /\ \/ /\ ~Success(CommentCreateReply(u, i, p))
          /\ UNCHANGED <<issues, comments, nextComment>>
       \/ /\ Success(CommentCreateReply(u, i, p))
          /\ nextComment' = nextComment + 1
          /\ comments' = Extend(comments, nextComment + 1, NewComment(u, i, p))
          /\ issues' = update_comment_count(issues, i, comments')
    /\ UNCHANGED <<notifications, nextNotification>>
    /\ UNCHANGED <<created_issues, progress_updates, pk_seq, inflight, issued>>
    /\ prev' = NoToggle
    /\ run' = NoRun
    /\ UNCHANGED <<users, is_verified, now, timeline, official, upvotes,
                   bookmarks, likes>>

\* the request while fewer than max Comment rows have been created
CommentCreateBelow(max, u, i, p) == nextComment < max /\ CommentCreate(u, i, p)

(***************************************************************************)
(* PUT/PATCH /issues/{issue_pk}/comments/{pk}/ (ModelViewSet update with   *)
(* CommentSerializer, whose writable fields are content and likes)         *)
(***************************************************************************)
\* CommentViewSet.get_queryset: the top-level comments of the issue
CommentQueryset(i) ==
    {c \in DOMAIN comments : comments[c].issue = i /\ comments[c].parent = NoParent}

CommentUpdateReply(u, i, c) ==
    IF c \notin CommentQueryset(i) THEN Reply(HTTP_404_NOT_FOUND, "NOT_FOUND")
    ELSE Reply(HTTP_200_OK, "")

\* a PATCH that does not send likes
NoLikes == -1

\* a PATCH that does not send content
NoContent == ""

\* serializer.save(): likes, whose source is like_count, is written as sent
LikeCountAfterUpdate(cm, n) == IF n = NoLikes THEN cm.like_count ELSE n

\* serializer.save(): content is written as sent
ContentAfterUpdate(cm, text) == IF text = NoContent THEN cm.content ELSE text

CommentUpdate(u, i, c, text, n) ==
    /\ u \in users /\ i \in IssueIds
    /\ \/ /\ ~Success(CommentUpdateReply(u, i, c))
          /\ UNCHANGED comments
       \/ /\ Success(CommentUpdateReply(u, i, c))
          /\ comments' = [comments EXCEPT
                 ![c].like_count = LikeCountAfterUpdate(comments[c], n),
                 ![c].content = ContentAfterUpdate(comments[c], text)]
    /\ UNCHANGED <<notifications, nextNotification>>
    /\ UNCHANGED <<created_issues, progress_updates, pk_seq, inflight, issued>>
    /\ prev' = NoToggle
    /\ run' = NoRun
    /\ UNCHANGED <<users, is_verified, now, issues, timeline, official, upvotes,
                   bookmarks, likes, nextComment>>

(***************************************************************************)
(* DELETE /issues/{issue_pk}/comments/{pk}/ (CommentViewSet.destroy)       *)
(***************************************************************************)
\* the comments deleted with the set S: Comment.parent is on_delete=CASCADE
RECURSIVE Cascade(_, _)
Cascade(cs, S) ==
    LET T == S \cup {d \in DOMAIN cs : cs[d].parent \in S}
    IN  IF T = S THEN S ELSE Cascade(cs, T)

Restrict(f, S) == [x \in S |-> f[x]]

CommentsWithout(cs, S) == Restrict(cs, DOMAIN cs \ Cascade(cs, S))

\* CommentLike.comment is on_delete=CASCADE
LikesWithin(rows, cs) == {x \in rows : x[2] \in DOMAIN cs}

CommentDestroyReply(u, i, c) ==
    IF c \notin CommentQueryset(i) THEN Reply(HTTP_404_NOT_FOUND, "NOT_FOUND")
    ELSE IF comments[c].author # u /\ ~is_staff(u)
         THEN Reply(HTTP_403_FORBIDDEN, "PERMISSION_DENIED")
    ELSE Reply(HTTP_200_OK, "")

\* line 373: the counter of the deleted comment's own issue is recomputed
CommentDestroy(u, i, c) ==
    /\ u \in users /\ i \in IssueIds
    /\ \/ /\ ~Success(CommentDestroyReply(u, i, c))
          /\ UNCHANGED <<issues, comments, likes>>
       \/ /\ Success(CommentDestroyReply(u, i, c))
          /\ comments' = CommentsWithout(comments, {c})
          /\ likes' = LikesWithin(likes, comments')
          /\ issues' = update_comment_count(issues, comments[c].issue, comments')
    /\ UNCHANGED <<notifications, nextNotification>>
    /\ UNCHANGED <<created_issues, progress_updates, pk_seq, inflight, issued>>
    /\ prev' = NoToggle
    /\ run' = NoRun
    /\ UNCHANGED <<users, is_verified, now, timeline, official, upvotes,
                   bookmarks, nextComment>>

(***************************************************************************)
(* PUT/PATCH /issues/{id}/ (IssueViewSet.update, IssueUpdateSerializer)    *)
(***************************************************************************)
Urgencies == {"normal", "high"}

\* variant: the object permission that also lets staff write
IsOwnerOrReadOnly_OrStaff(u, iss) == iss.reporter = u \/ is_staff(u)

\* IsOwnerOrReadOnly.has_object_permission for a write
IsOwnerOrReadOnly(u, iss) == iss.reporter = u

EditIssueReply(u, i) ==
    IF ~check_permissions("update", u) \/ ~IsOwnerOrReadOnly(u, issues[i])
    THEN Reply(HTTP_403_FORBIDDEN, "PERMISSION_DENIED")
    ELSE Reply(HTTP_200_OK, "")

EditIssue(u, i, g) ==
    /\ u \in users /\ i \in IssueIds
    /\ \/ /\ ~Success(EditIssueReply(u, i))
          /\ UNCHANGED issues
       \/ /\ Success(EditIssueReply(u, i))
          /\ issues' = [issues EXCEPT ![i].urgency = g]
    /\ UNCHANGED <<notifications, nextNotification>>
    /\ UNCHANGED <<created_issues, progress_updates, pk_seq, inflight, issued>>
    /\ prev' = NoToggle
    /\ run' = NoRun
    /\ UNCHANGED <<users, is_verified, now, timeline, official, upvotes,
                   bookmarks, comments, likes, nextComment>>

(***************************************************************************)
(* DELETE /issues/{id}/ (IssueViewSet.destroy): instance.delete() with the *)
(* on_delete rules of the models                                           *)
(***************************************************************************)
IssueDestroyReply(u, i) ==
    IF ~check_permissions("destroy", u) \/ ~IsOwnerOrReadOnly(u, issues[i])
    THEN Reply(HTTP_403_FORBIDDEN, "PERMISSION_DENIED")
    ELSE Reply(HTTP_200_OK, "")

\* the rows of the issue go with it: IssueTimeline, OfficialResponse, Upvote,
\* Bookmark, Comment (and CommentLike through it) and Notification name the
\* issue with on_delete=CASCADE
IssueDestroy(u, i) ==
    /\ i \in IssueIds
    /\ \/ /\ ~Success(IssueDestroyReply(u, i))
          /\ UNCHANGED <<issues, timeline, official, upvotes, bookmarks,
                         comments, likes, notifications>>
       \/ /\ Success(IssueDestroyReply(u, i))
          /\ issues' = Restrict(issues, IssueIds \ {i})
          /\ timeline' = Restrict(timeline, IssueIds \ {i})
          /\ official' = {x \in official : x[1] # i}
          /\ upvotes' = {x \in upvotes : x[2] # i}
          /\ bookmarks' = {x \in bookmarks : x[2] # i}
          /\ comments' = CommentsWithout(comments,
                             {c \in DOMAIN comments : comments[c].issue = i})
          /\ likes' = LikesWithin(likes, comments')
          /\ notifications' = Restrict(notifications,
                 {k \in DOMAIN notifications : notifications[k].issue # i})
    /\ UNCHANGED <<created_issues, progress_updates, pk_seq, inflight, issued>>
    /\ prev' = NoToggle
    /\ run' = NoRun
    /\ UNCHANGED <<users, is_verified, now, nextComment, nextNotification>>

(***************************************************************************)
(* The issue and progress apps: Issue with the statuses open, in_progress, *)
(* resolved and closed, and the Progress updates of an issue.  The views   *)
(* are modelled as handlers called with the pk of the row.                 *)
(***************************************************************************)
STATUS_CHOICES == {"open", "in_progress", "resolved", "closed"}

\* a status that is no choice of the field
StatusBodies == STATUS_CHOICES \cup {"done"}

\* "request.user.is_staff or request.user.is_admin": User declares is_staff
\* and no attribute is_admin, so the right operand, which Python evaluates
\* when is_staff is false, raises AttributeError
is_staff_or_is_admin(u) == IF is_staff(u) THEN "True" ELSE "AttributeError"

NewCreatedIssue(u) == [status |-> "open", created_by |-> u, resolved_by |-> NoUser]

LegacyUnchanged ==
    /\ prev' = NoToggle
    /\ run' = NoRun
    /\ UNCHANGED <<users, is_verified, now, issues, timeline, official, upvotes,
                   bookmarks, comments, likes, nextComment, notifications,
                   nextNotification, inflight, issued>>

\* IssueCreateView.post: any authenticated user; status defaults to open
IssueCreate(u) ==
    /\ u \in users
    /\ pk_seq.issues < MaxCreatedIssues
    /\ pk_seq' = [pk_seq EXCEPT !.issues = @ + 1]
    /\ created_issues' = Extend(created_issues, pk_seq.issues + 1, NewCreatedIssue(u))
    /\ UNCHANGED progress_updates
    /\ LegacyUnchanged

\* IssueUpdateView.put / patch with a status in the body
IssueUpdateReply(u, pk, s) ==
    IF u \notin users THEN Reply(HTTP_403_FORBIDDEN, "not_authenticated")
    ELSE IF pk \notin DOMAIN created_issues THEN Reply(HTTP_404_NOT_FOUND, "NOT_FOUND")
    ELSE IF is_staff_or_is_admin(u) = "AttributeError"
         THEN Reply(HTTP_500_INTERNAL_SERVER_ERROR, "AttributeError")
    ELSE IF is_staff_or_is_admin(u) = "False" /\ created_issues[pk].created_by # u
         THEN Reply(HTTP_403_FORBIDDEN, "permission")
    ELSE IF s \notin STATUS_CHOICES THEN Reply(HTTP_400_BAD_REQUEST, "invalid_choice")
    ELSE IF s = "resolved" /\ is_staff_or_is_admin(u) = "False"
         THEN Reply(HTTP_400_BAD_REQUEST, "Only staff members can mark issues as resolved.")
    ELSE Reply(HTTP_200_OK, "")

\* IssueUpdateSerializer.update
IssueAfterUpdate(row, s, u) ==
    [row EXCEPT !.status = s,
                !.resolved_by = IF s = "resolved" /\ row.status # "resolved" THEN u
                                ELSE IF s = "open" /\ row.status \in {"resolved", "closed"}
                                     THEN NoUser
                                ELSE @]

IssueUpdate(u, pk, s) ==
    /\ \/ /\ ~Success(IssueUpdateReply(u, pk, s))
          /\ UNCHANGED created_issues
       \/ /\ Success(IssueUpdateReply(u, pk, s))
          /\ created_issues' = [created_issues EXCEPT
                 ![pk] = IssueAfterUpdate(created_issues[pk], s, u)]
    /\ UNCHANGED <<progress_updates, pk_seq>>
    /\ LegacyUnchanged

\* IsStaffOrAdmin.has_permission of the progress views
ProgressPermissionReply(u) ==
    IF u \notin users THEN Reply(HTTP_403_FORBIDDEN, "not_authenticated")
    ELSE IF is_staff_or_is_admin(u) = "AttributeError"
         THEN Reply(HTTP_500_INTERNAL_SERVER_ERROR, "AttributeError")
    ELSE IF is_staff_or_is_admin(u) = "False" THEN Reply(HTTP_403_FORBIDDEN, "permission")
    ELSE Reply(HTTP_200_OK, "")

\* ProgressCreateView.post with ProgressCreateSerializer
ProgressCreateReply(u, issue_id, s) ==
    IF ~Success(ProgressPermissionReply(u)) THEN ProgressPermissionReply(u)
    ELSE IF issue_id \notin DOMAIN created_issues
         THEN Reply(HTTP_400_BAD_REQUEST, "Issue not found.")
    ELSE IF s \notin STATUS_CHOICES THEN Reply(HTTP_400_BAD_REQUEST, "invalid_choice")
    ELSE Reply(HTTP_201_CREATED, "")

\* Progress.save: the issue takes the status of the saved progress update
IssueAfterProgressSave(row, progress) ==
    IF row.status = progress.status THEN row
    ELSE [row EXCEPT !.status = progress.status,
                     !.resolved_by = IF progress.status = "resolved"
                                     THEN progress.updated_by ELSE @]

ProgressCreate(u, issue_id, s) ==
    /\ \/ /\ ~Success(ProgressCreateReply(u, issue_id, s))
          /\ UNCHANGED <<created_issues, progress_updates, pk_seq>>
       \/ /\ Success(ProgressCreateReply(u, issue_id, s))
          /\ pk_seq.progress < MaxProgress
          /\ LET progress == [issue |-> issue_id, status |-> s, updated_by |-> u] IN
             /\ pk_seq' = [pk_seq EXCEPT !.progress = @ + 1]
             /\ progress_updates' = Extend(progress_updates, pk_seq.progress + 1, progress)
             /\ created_issues' = [created_issues EXCEPT
                    ![issue_id] = IssueAfterProgressSave(@, progress)]
    /\ LegacyUnchanged

\* ProgressUpdateView.put / patch with ProgressUpdateSerializer
ProgressUpdateReply(u, pk, s) ==
    IF ~Success(ProgressPermissionReply(u)) THEN ProgressPermissionReply(u)
    ELSE IF pk \notin DOMAIN progress_updates THEN Reply(HTTP_404_NOT_FOUND, "NOT_FOUND")
    ELSE IF s \notin STATUS_CHOICES THEN Reply(HTTP_400_BAD_REQUEST, "invalid_choice")
    ELSE Reply(HTTP_200_OK, "")

ProgressUpdate(u, pk, s) ==
    /\ \/ /\ ~Success(ProgressUpdateReply(u, pk, s))
          /\ UNCHANGED <<created_issues, progress_updates>>
       \/ /\ Success(ProgressUpdateReply(u, pk, s))
          /\ LET progress == [progress_updates[pk] EXCEPT !.status = s] IN
             /\ progress_updates' = [progress_updates EXCEPT ![pk] = progress]
             /\ created_issues' = [created_issues EXCEPT
                    ![progress.issue] = IssueAfterProgressSave(@, progress)]
    /\ UNCHANGED pk_seq
    /\ LegacyUnchanged

\* Issue.created_by is CASCADE, Issue.resolved_by is SET_NULL
CreatedIssuesWithoutUser(rows, v) ==
    [pk \in {j \in DOMAIN rows : rows[j].created_by # v} |->
        [rows[pk] EXCEPT !.resolved_by = IF @ = v THEN NoUser ELSE @]]

\* Progress.issue and Progress.updated_by are CASCADE
ProgressWithoutUser(rows, iss, v) ==
    Restrict(rows, {pk \in DOMAIN rows : rows[pk].updated_by # v /\ rows[pk].issue \in DOMAIN iss})

(***************************************************************************)
(* DELETE /admin/users/{pk}/ (AdminUserDetailView.delete): user.delete()   *)
(* with the on_delete rules of the models, and nothing else                *)
(***************************************************************************)
AdminDeleteUserReply(a, v) ==
    IF ~IsAdminUser(a) THEN Reply(HTTP_403_FORBIDDEN, "PERMISSION_DENIED")
    ELSE IF v \notin users THEN Reply(HTTP_404_NOT_FOUND, "NOT_FOUND")
    ELSE Reply(HTTP_200_OK, "")

\* Issue.reporter is CASCADE, Issue.assigned_resolver is SET_NULL
IssuesWithoutUser(iss, v) ==
    [i \in {j \in DOMAIN iss : iss[j].reporter # v} |->
        [iss[i] EXCEPT !.assigned_resolver = IF @ = v THEN NoUser ELSE @]]

\* IssueTimeline.issue is CASCADE, IssueTimeline.updated_by is SET_NULL
TimelineWithoutUser(tl, iss, v) ==
    [i \in DOMAIN iss |->
        [k \in 1..Len(tl[i]) |->
            [tl[i][k] EXCEPT !.updated_by = IF @ = v THEN NoUser ELSE @]]]

\* OfficialResponse.issue is CASCADE, OfficialResponse.responder is SET_NULL
OfficialWithoutUser(rows, iss, v) ==
    {<<o[1], IF o[2] = v THEN NoUser ELSE o[2]>> : o \in {x \in rows : x[1] \in DOMAIN iss}}

\* Upvote and Bookmark: user and issue are CASCADE
RowsWithoutUser(rows, iss, v) == {x \in rows : x[1] # v /\ x[2] \in DOMAIN iss}

\* Comment.author, Comment.issue and Comment.parent are CASCADE
CommentsWithoutUser(cs, iss, v) ==
    CommentsWithout(cs, {c \in DOMAIN cs : cs[c].author = v \/ cs[c].issue \notin DOMAIN iss})

\* CommentLike: user and comment are CASCADE
LikesWithoutUser(rows, cs, v) == {x \in LikesWithin(rows, cs) : x[1] # v}

\* Notification.user and Notification.issue are CASCADE, Notification.actor
\* is SET_NULL
NotificationsWithoutUser(ns, iss, v) ==
    [k \in {j \in DOMAIN ns : ns[j].user # v /\ ns[j].issue \in DOMAIN iss} |->
        [ns[k] EXCEPT !.actor = IF @ = v THEN NoUser ELSE @]]

AdminDeleteUser(a, v) ==
    /\ a \in users
    /\ \/ /\ ~Success(AdminDeleteUserReply(a, v))
          /\ UNCHANGED <<users, issues, timeline, official, upvotes, bookmarks,
                         comments, likes, notifications, created_issues,
                         progress_updates>>
       \/ /\ Success(AdminDeleteUserReply(a, v))
          /\ users' = users \ {v}
          /\ issues' = IssuesWithoutUser(issues, v)
          /\ timeline' = TimelineWithoutUser(timeline, issues', v)
          /\ official' = OfficialWithoutUser(official, issues', v)
          /\ upvotes' = RowsWithoutUser(upvotes, issues', v)
          /\ bookmarks' = RowsWithoutUser(bookmarks, issues', v)
          /\ comments' = CommentsWithoutUser(comments, issues', v)
          /\ likes' = LikesWithoutUser(likes, comments', v)
          /\ notifications' = NotificationsWithoutUser(notifications, issues', v)
          /\ created_issues' = CreatedIssuesWithoutUser(created_issues, v)
          /\ progress_updates' = ProgressWithoutUser(progress_updates, created_issues', v)
    /\ UNCHANGED <<pk_seq, inflight, issued>>
    /\ prev' = NoToggle
    /\ run' = NoRun
    /\ UNCHANGED <<is_verified, now, nextComment, nextNotification>>

(***************************************************************************)
(* Notifications (notifications/models.py).  The factory classmethods are  *)
(* the only code that creates rows; no view of the repository calls them,  *)
(* so they are applied here as steps of their own, on the rows they take.  *)
(***************************************************************************)
NotificationTypes ==
    {"status_update", "comment", "upvote", "mention", "resolution", "assignment", "system"}

\* the columns of a Notification row; message stands for the formatted text
NotificationRow(recipient, type, title, i, actor) ==
    [user |-> recipient, type |-> type, title |-> title, message |-> "formatted",
     issue |-> i, actor |-> actor, read |-> FALSE]

\* a factory that returns None
NoNotification == [type |-> "none"]

create_status_update_notification(i, actor) ==
    NotificationRow(issues[i].reporter, "status_update", "Status Update", i, actor)

\* variant: the comment factory without the test of lines 76-77
create_comment_notification_ToAnyone(c) ==
    NotificationRow(issues[comments[c].issue].reporter, "comment", "New Comment",
                    comments[c].issue, comments[c].author)

create_comment_notification(c) ==
    IF comments[c].author = issues[comments[c].issue].reporter THEN NoNotification
    ELSE NotificationRow(issues[comments[c].issue].reporter, "comment", "New Comment",
                         comments[c].issue, comments[c].author)

create_upvote_notification(u, i) ==
    IF u = issues[i].reporter THEN NoNotification
    ELSE NotificationRow(issues[i].reporter, "upvote", "New Upvote", i, u)

create_assignment_notification(i, resolver) ==
    NotificationRow(resolver, "assignment", "New Assignment", i, NoUser)

create_resolution_notification(i, actor) ==
    NotificationRow(issues[i].reporter, "resolution", "Issue Resolved", i, actor)

\* cls.objects.create of the row a factory built, nothing for None
Created(row) ==
    /\ IF row.type = "none"
       THEN UNCHANGED <<notifications, nextNotification>>
       ELSE /\ nextNotification < MaxNotifications
            /\ nextNotification' = nextNotification + 1
            /\ notifications' = Extend(notifications, nextNotification + 1, row)
    /\ UNCHANGED <<created_issues, progress_updates, pk_seq, inflight, issued>>
    /\ prev' = NoToggle
    /\ run' = NoRun
    /\ UNCHANGED <<users, is_verified, now, issues, timeline, official, upvotes,
                   bookmarks, comments, likes, nextComment>>

NotifyStatusUpdate(i, actor) ==
    i \in IssueIds /\ actor \in users /\ Created(create_status_update_notification(i, actor))

NotifyResolution(i, actor) ==
    /\ i \in IssueIds /\ actor \in users /\ issues[i].status = "resolved"
    /\ Created(create_resolution_notification(i, actor))

NotifyComment(c) == c \in DOMAIN comments /\ Created(create_comment_notification(c))

NotifyUpvote(u, i) == <<u, i>> \in upvotes /\ Created(create_upvote_notification(u, i))

(***************************************************************************)
(* /notifications/ (NotificationViewSet: get, patch, delete)               *)
(***************************************************************************)
\* get_queryset: the requester's own notifications
NotificationQueryset(u) == {k \in DOMAIN notifications : notifications[k].user = u}

NotificationReply(u, k) ==
    IF u \notin users THEN Reply(HTTP_403_FORBIDDEN, "PERMISSION_DENIED")
    ELSE IF k \notin NotificationQueryset(u) THEN Reply(HTTP_404_NOT_FOUND, "NOT_FOUND")
    ELSE Reply(HTTP_200_OK, "")

\* partial_update: type is a ChoiceField over NotificationType
NotificationPatchReply(u, k, field, value) ==
    IF ~Success(NotificationReply(u, k)) THEN NotificationReply(u, k)
    ELSE IF field = "type" /\ value \notin NotificationTypes
         THEN Reply(HTTP_400_BAD_REQUEST, "VALIDATION_ERROR")
    ELSE Reply(HTTP_200_OK, "")

\* the fields of NotificationSerializer that are not read-only and are
\* columns: issue and actor are declared read_only, id and created_at are
\* not editable
NotificationWritableFields == {"type", "title", "message", "read"}

\* serializer.save() of a partial update that sends one field
NotificationAfterPatch(row, field, value) ==
    IF field \in NotificationWritableFields
    THEN [row EXCEPT ![field] = value]
    ELSE row

Unchanged_but_notifications ==
    /\ UNCHANGED <<created_issues, progress_updates, pk_seq, inflight, issued>>
    /\ prev' = NoToggle
    /\ run' = NoRun
    /\ UNCHANGED <<users, is_verified, now, issues, timeline, official, upvotes,
                   bookmarks, comments, likes, nextComment, nextNotification>>

\* PATCH /notifications/{pk}/ (the inherited partial_update)
NotificationPatch(u, k, field, value) ==
    /\ \/ /\ ~Success(NotificationPatchReply(u, k, field, value))
          /\ UNCHANGED notifications
       \/ /\ Success(NotificationPatchReply(u, k, field, value))
          /\ notifications' = [notifications EXCEPT
                 ![k] = NotificationAfterPatch(notifications[k], field, value)]
    /\ Unchanged_but_notifications

\* PATCH /notifications/{pk}/read/ (mark_read)
MarkRead(u, k) ==
    /\ \/ /\ ~Success(NotificationReply(u, k))
          /\ UNCHANGED notifications
       \/ /\ Success(NotificationReply(u, k))
          /\ notifications' = [notifications EXCEPT ![k].read = TRUE]
    /\ Unchanged_but_notifications

\* NotificationViewSet.http_method_names
http_method_names == {"get", "patch", "delete"}

\* POST /notifications/read-all/: APIView.dispatch hands a request whose
\* method is not in http_method_names to http_method_not_allowed, after the
\* permission check and before the handler of the action
MarkAllReadReply(u) ==
    IF u \notin users THEN Reply(HTTP_403_FORBIDDEN, "PERMISSION_DENIED")
    ELSE IF "post" \notin http_method_names
         THEN Reply(HTTP_405_METHOD_NOT_ALLOWED, "METHOD_NOT_ALLOWED")
    ELSE Reply(HTTP_200_OK, "")

\* mark_all_read: filter(user=request.user, read=False).update(read=True)
MarkedAllRead(ns, u) ==
    [k \in DOMAIN ns |->
        IF ns[k].user = u /\ ~ns[k].read THEN [ns[k] EXCEPT !.read = TRUE] ELSE ns[k]]

MarkAllRead(u) ==
    /\ \/ /\ ~Success(MarkAllReadReply(u))
          /\ UNCHANGED notifications
       \/ /\ Success(MarkAllReadReply(u))
          /\ notifications' = MarkedAllRead(notifications, u)
    /\ Unchanged_but_notifications

\* DELETE /notifications/{pk}/ (destroy)
NotificationDestroy(u, k) ==
    /\ \/ /\ ~Success(NotificationReply(u, k))
          /\ UNCHANGED notifications
       \/ /\ Success(NotificationReply(u, k))
          /\ notifications' = Restrict(notifications, DOMAIN notifications \ {k})
    /\ Unchanged_but_notifications

(***************************************************************************)
(* Requests as the statements the database sees.  No view opens a          *)
(* transaction or locks a row: a view loads the Issue row into an instance *)
(* and every later query or save is a statement of its own, between which  *)
(* the statements of other requests run.  inflight[u] is the request of u  *)
(* that is between two statements (its instance, and the statement that is *)
(* next) or the response u received last.                                  *)
(***************************************************************************)
Idle(u) == inflight[u].pc = "returned"
InFlight(u, op, pc) == inflight[u].op = op /\ inflight[u].pc = pc

\* get_object / get_object_or_404: the row as it is now
Loaded(u, op, i, body, pc) ==
    [inflight EXCEPT ![u] = [op |-> op, issue |-> i, body |-> body, pc |-> pc,
                             instance |-> issues[i]]]
Returned(u, op, i, reply) ==
    [inflight EXCEPT ![u] = [op |-> op, issue |-> i, pc |-> "returned",
                             reply |-> reply]]

\* variant: a save that leaves a row that already has a resolver
save_IfUnassigned(row, instance) ==
    IF row.assigned_resolver # NoUser THEN row ELSE instance

\* Model.save(): every column of the row is written from the instance
save(row, instance) == instance

\* save(update_fields=[field]): one column is written from the instance
save_upvote_count(row, instance) == [row EXCEPT !.upvote_count = instance.upvote_count]
save_share_count(row, instance) == [row EXCEPT !.share_count = instance.share_count]

RaceUnchanged ==
    /\ prev' = NoToggle
    /\ run' = NoRun
    /\ UNCHANGED <<users, is_verified, official, bookmarks, comments, likes,
                   nextComment, notifications, nextNotification, created_issues,
                   progress_updates, pk_seq, issued>>

\* ResolverAcceptIssueView.post up to the test of assigned_resolver
AcceptLoad(u, i) ==
    /\ u \in users /\ Idle(u) /\ i \in IssueIds
    /\ inflight' = IF Success(AcceptReply(u, i))
                   THEN Loaded(u, "accept", i, "", "save")
                   ELSE Returned(u, "accept", i, AcceptReply(u, i))
    /\ UNCHANGED <<issues, timeline, upvotes, now>>
    /\ RaceUnchanged

\* ResolverAcceptIssueView.post from the assignment on
AcceptSave(u) ==
    /\ InFlight(u, "accept", "save")
    /\ RoomInTimeline
    /\ LET i == inflight[u].issue
           instance == [inflight[u].instance EXCEPT
                           !.assigned_resolver = u,
                           !.status = AcceptStatus(inflight[u].instance)]
       IN  /\ issues' = [issues EXCEPT ![i] = save(@, instance)]
           /\ timeline' = Append1(i, TimelineRow("acknowledged",
                                                 Note("Issue accepted by", u), u))
           /\ inflight' = Returned(u, "accept", i, Reply(HTTP_200_OK, ""))
    /\ UNCHANGED <<upvotes, now>>
    /\ RaceUnchanged

\* IssueViewSet.update_status up to the validation of the body
UpdateStatusLoad(u, i, s) ==
    /\ Idle(u) /\ i \in IssueIds
    /\ inflight' = IF Success(UpdateStatusReply(u, i, s))
                   THEN Loaded(u, "update_status", i, s, "save")
                   ELSE Returned(u, "update_status", i, UpdateStatusReply(u, i, s))
    /\ UNCHANGED <<issues, timeline, upvotes, now>>
    /\ RaceUnchanged

\* IssueViewSet.update_status from the assignment of the status on
UpdateStatusSave(u) ==
    /\ InFlight(u, "update_status", "save")
    /\ RoomInTimeline
    /\ LET i == inflight[u].issue
           s == inflight[u].body
           instance == [inflight[u].instance EXCEPT
                           !.status = s,
                           !.resolved_at = ResolvedAtAfterUpdate(inflight[u].instance,
                                                                 s, now + 1)]
       IN  /\ now' = IF s = "resolved" THEN now + 1 ELSE now
           /\ issues' = [issues EXCEPT ![i] = save(@, instance)]
           /\ timeline' = Append1(i, TimelineRow(
                              UpdateStatusTimelineStatus(inflight[u].instance, s),
                              Note("", NoUser), u))
           /\ inflight' = Returned(u, "update_status", i, Reply(HTTP_200_OK, ""))
    /\ UNCHANGED upvotes
    /\ RaceUnchanged

\* IssueViewSet.upvote: get_object, then get_or_create and, when the row
\* was there, delete
UpvoteMembership(u, i) ==
    /\ u \in users /\ Idle(u) /\ i \in IssueIds
    /\ check_permissions("upvote", u)
    /\ upvotes' = ToggleRow(upvotes, <<u, i>>)
    /\ inflight' = Loaded(u, "upvote", i, "", "count")
    /\ UNCHANGED <<issues, timeline, now>>
    /\ RaceUnchanged

\* Issue.update_upvote_count, line 124: self.upvotes.count()
UpvoteCount(u) ==
    /\ InFlight(u, "upvote", "count")
    /\ inflight' = [inflight EXCEPT
           ![u].instance.upvote_count =
               Cardinality(UpvoteRows(upvotes, inflight[u].issue)),
           ![u].pc = "save"]
    /\ UNCHANGED <<issues, timeline, upvotes, now>>
    /\ RaceUnchanged

\* Issue.update_upvote_count, line 125: save(update_fields=['upvote_count'])
UpvoteSave(u) ==
    /\ InFlight(u, "upvote", "save")
    /\ LET i == inflight[u].issue IN
       /\ issues' = [issues EXCEPT ![i] = save_upvote_count(@, inflight[u].instance)]
       /\ inflight' = Returned(u, "upvote", i, Reply(HTTP_200_OK, ""))
    /\ UNCHANGED <<timeline, upvotes, now>>
    /\ RaceUnchanged

\* IssueViewSet.share: get_object
ShareLoad(u, i) ==
    /\ u \in users /\ Idle(u) /\ i \in IssueIds
    /\ check_permissions("share", u)
    /\ issues[i].share_count < MaxShares
    /\ inflight' = Loaded(u, "share", i, "", "save")
    /\ UNCHANGED <<issues, timeline, upvotes, now>>
    /\ RaceUnchanged

\* IssueViewSet.share: share_count += 1, save(update_fields=['share_count'])
ShareSave(u) ==
    /\ InFlight(u, "share", "save")
    /\ LET i == inflight[u].issue
           instance == [inflight[u].instance EXCEPT !.share_count = @ + 1]
       IN  /\ issues' = [issues EXCEPT ![i] = save_share_count(@, instance)]
           /\ inflight' = Returned(u, "share", i, Reply(HTTP_200_OK, ""))
    /\ UNCHANGED <<timeline, upvotes, now>>
    /\ RaceUnchanged

(***************************************************************************)
(* The workflow specification: every user may send every workflow request. *)
(***************************************************************************)
ReportIssue == \E u \in Users : CreateIssue(u)
\* PATCH status; the note, copied verbatim into the row, is sent blank
PatchStatus == \E u \in Users, i \in IssueIds, s \in StatusInputs :
                   UpdateStatus(u, i, s, "")
AcceptIssue == \E u \in Users, i \in IssueIds : AcceptOutsideRun(u, i)
AcceptIssueInRun == \E u \in Users, i \in IssueIds : AcceptInRun(u, i)
CompleteIssue == \E u \in Users, i \in IssueIds, n \in Notes : Complete(u, i, n)
AssignIssue == \E u \in Users, i \in IssueIds, rid \in Users \cup {GhostUser} :
                   Assign(u, i, rid)
RespondOfficially == \E u \in Users, i \in IssueIds : OfficialResponse(u, i)
VerifyResolver == \E u \in Users, r \in Users, approved \in BOOLEAN :
                      Verify(u, r, approved)

Next ==
    \/ ReportIssue
    \/ PatchStatus
    \/ AcceptIssue
    \/ CompleteIssue
    \/ AssignIssue

Spec == Init /\ [][Next]_vars

\* runs of accept requests, on issues that are unassigned, assigned or
\* completed when the run begins
AcceptNext ==
    \/ ReportIssue
    \/ AcceptIssueInRun
    \/ CompleteIssue
    \/ AssignIssue

SpecAccept == Init /\ [][AcceptNext]_vars

\* the workflow with resolver verification and official responses
GateNext ==
    \/ ReportIssue
    \/ PatchStatus
    \/ AcceptIssue
    \/ CompleteIssue
    \/ RespondOfficially
    \/ VerifyResolver

\* a citizen, one resolver awaiting verification and an admin
InitGate == InitStore({"c1", "r1", "a1"})

SpecGate == InitGate /\ [][GateNext]_vars

(***************************************************************************)
(* The engagement specifications.                                          *)
(***************************************************************************)
UpvoteIssue == \E u \in Users, i \in IssueIds : Upvote(u, i)
BookmarkIssue == \E u \in Users, i \in IssueIds : Bookmark(u, i)
LikeComment == \E u \in Users, c \in DOMAIN comments : CommentLike(u, c)
CreateComment == \E u \in Users, i \in IssueIds, p \in 0..MaxComments :
                     CommentCreateBelow(MaxComments, u, i, p)
UpdateComment == \E u \in Users, i \in IssueIds, c \in 1..MaxComments,
                    n \in {NoLikes} \cup 0..MaxLikesInput :
                     CommentUpdate(u, i, c, NoContent, n)
DestroyComment == \E u \in Users, i \in IssueIds, c \in 1..MaxComments :
                      CommentDestroy(u, i, c)
EditAnIssue == \E u \in Users, i \in IssueIds, g \in Urgencies : EditIssue(u, i, g)
DeleteUser == \E a \in Users, v \in Users : AdminDeleteUser(a, v)

\* the first issue of the table
CreateFirstIssue(u) == IssueIds = {} /\ CreateIssue(u)
ReportFirstIssue == \E u \in Users : CreateFirstIssue(u)

\* a citizen and an admin
InitVotes == InitStore({"c1", "a1"})

\* PATCH status with any note, by the registered users and by a sender
\* without an account
PatchStatusWithNote ==
    \E u \in Users, i \in IssueIds, s \in StatusInputs, n \in Notes :
        UpdateStatus(u, i, s, n)

\* one issue at a time, and every PATCH status that can be sent on it
NotesNext ==
    \/ ReportFirstIssue
    \/ PatchStatusWithNote

SpecNotes == InitVotes /\ [][NotesNext]_vars

\* upvotes and bookmarks, with the other requests that touch an issue
VotesNext ==
    \/ ReportFirstIssue
    \/ UpvoteIssue
    \/ BookmarkIssue
    \/ EditAnIssue
    \/ PatchStatus
    \/ DeleteUser

SpecVotes == InitVotes /\ [][VotesNext]_vars

\* a citizen and an admin
InitComments == InitStore({"c1", "a1"})

\* comments and their likes
CommentsNext ==
    \/ ReportIssue
    \/ CreateComment
    \/ UpdateComment
    \/ DestroyComment
    \/ LikeComment

SpecComments == InitComments /\ [][CommentsNext]_vars

\* PATCH of a comment with a new content and no likes
RewriteComment == \E u \in Users, i \in IssueIds, c \in 1..MaxComments :
                      CommentUpdate(u, i, c, "edited", NoLikes)

\* the requests on the comments of one issue that carry or keep a content
ContentNext ==
    \/ ReportFirstIssue
    \/ CreateComment
    \/ RewriteComment
    \/ LikeComment
    \/ DestroyComment

SpecContent == InitComments /\ [][ContentNext]_vars

\* the reporter's requests on /issues/{id}/ next to the other users'
DestroyAnIssue == \E u \in Users, i \in IssueIds : IssueDestroy(u, i)

\* an issue reported while the clock of the model is early
CreateEarly(u) == now < MaxClock /\ CreateFirstIssue(u)
ReportEarly == \E u \in Users : CreateEarly(u)

\* PATCH status to resolved by a registered user
ResolveIssue == \E u \in users, i \in IssueIds : UpdateStatus(u, i, "resolved", "")

OwnerNext ==
    \/ ReportEarly
    \/ EditAnIssue
    \/ DestroyAnIssue
    \/ ResolveIssue
    \/ UpvoteIssue

SpecOwner == InitVotes /\ [][OwnerNext]_vars

\* a thread of comments and replies on one issue
CreateReply == \E u \in Users, i \in IssueIds, p \in 0..MaxThread :
                   CommentCreateBelow(MaxThread, u, i, p)

RepliesNext ==
    \/ ReportFirstIssue
    \/ CreateReply
    \/ DestroyComment

SpecReplies == InitComments /\ [][RepliesNext]_vars

\* the bodies sent to PATCH /notifications/{pk}/: one field and its value
PatchBodies ==
    {<<"type", "system">>, <<"type", "alert">>, <<"title", "edited">>,
     <<"message", "edited">>, <<"read", TRUE>>, <<"read", FALSE>>, <<"actor", "a1">>}

PatchANotification ==
    \E u \in Users, k \in 1..MaxNotifications, b \in PatchBodies :
        NotificationPatch(u, k, b[1], b[2])
MarkARead == \E u \in Users, k \in 1..MaxNotifications : MarkRead(u, k)
MarkAllAsRead == \E u \in Users : MarkAllRead(u)
DestroyANotification == \E u \in Users, k \in 1..MaxNotifications : NotificationDestroy(u, k)
StatusNotification == \E i \in IssueIds, actor \in users : NotifyStatusUpdate(i, actor)
ResolutionNotification == \E i \in IssueIds, actor \in users : NotifyResolution(i, actor)

\* the inbox of the reporter of one issue
InboxNext ==
    \/ ReportFirstIssue
    \/ ResolveIssue
    \/ StatusNotification
    \/ ResolutionNotification
    \/ PatchANotification
    \/ MarkARead
    \/ MarkAllAsRead
    \/ DestroyANotification

SpecInbox == InitVotes /\ [][InboxNext]_vars

\* requests of two resolvers whose statements interleave
InitRace == InitStore({"r1", "r2"})

LoadForAccept == \E u \in users, i \in IssueIds : AcceptLoad(u, i)
SaveAccepted == \E u \in users : AcceptSave(u)
\* PATCH status to resolved, and with a status outside the choices
LoadForStatus == \E u \in users, i \in IssueIds, s \in {"resolved", "closed"} :
                     UpdateStatusLoad(u, i, s)
SaveStatus == \E u \in users : UpdateStatusSave(u)
WriteUpvote == \E u \in users, i \in IssueIds : UpvoteMembership(u, i)
CountUpvotes == \E u \in users : UpvoteCount(u)
SaveUpvoteCount == \E u \in users : UpvoteSave(u)
LoadForShare == \E u \in users, i \in IssueIds : ShareLoad(u, i)
SaveShareCount == \E u \in users : ShareSave(u)

\* accept requests of the two resolvers on the issues reported
AcceptRaceNext ==
    \/ ReportIssue
    \/ LoadForAccept
    \/ SaveAccepted

SpecAcceptRace == InitRace /\ [][AcceptRaceNext]_vars

\* upvote toggles in three statements, and the toggle as one step
UpvoteRaceNext ==
    \/ ReportFirstIssue
    \/ WriteUpvote
    \/ CountUpvotes
    \/ SaveUpvoteCount
    \/ UpvoteIssue

SpecUpvoteRace == InitRace /\ [][UpvoteRaceNext]_vars

\* workflow requests among engagement requests
RaceNext ==
    \/ ReportFirstIssue
    \/ LoadForAccept
    \/ SaveAccepted
    \/ LoadForStatus
    \/ SaveStatus
    \/ WriteUpvote
    \/ CountUpvotes
    \/ SaveUpvoteCount
    \/ LoadForShare
    \/ SaveShareCount

SpecRace == InitRace /\ [][RaceNext]_vars

\* the issue and progress apps: two citizens and a staff user
InitLegacy == InitStore({"c1", "c2", "a1"})

CreateAnIssue == \E u \in Users : IssueCreate(u)
UpdateAnIssue == \E u \in Users, pk \in 1..MaxCreatedIssues, s \in StatusBodies :
                     IssueUpdate(u, pk, s)
CreateProgress == \E u \in Users, pk \in 1..MaxCreatedIssues, s \in StatusBodies :
                      ProgressCreate(u, pk, s)
UpdateProgress == \E u \in Users, pk \in 1..MaxProgress, s \in StatusBodies :
                      ProgressUpdate(u, pk, s)

LegacyNext ==
    \/ CreateAnIssue
    \/ UpdateAnIssue
    \/ CreateProgress
    \/ UpdateProgress

SpecLegacy == InitLegacy /\ [][LegacyNext]_vars

\* the factories applied to the rows they take
UpvoteNotification == \E u \in Users, i \in IssueIds : NotifyUpvote(u, i)
CommentNotification == \E c \in DOMAIN comments : NotifyComment(c)

\* upvotes and comments of a citizen and an admin, and their notifications
NotifyNext ==
    \/ ReportFirstIssue
    \/ UpvoteIssue
    \/ CreateComment
    \/ UpvoteNotification
    \/ CommentNotification

SpecNotify == InitVotes /\ [][NotifyNext]_vars

(***************************************************************************)
(* Workflow claims.                                                        *)
(***************************************************************************)
LastRow(i) == timeline[i][Len(timeline[i])]

\* C1: after any sequence of create, PATCH status, accept, complete and
\* assign requests, every issue's status is the status of its most recent
\* IssueTimeline row.
C1_StatusIsLatestTimelineRow ==
    \A i \in IssueIds :
        /\ Len(timeline[i]) > 0
        /\ issues[i].status = LastRow(i).status

\* an issue that was moved on and then assigned: three rows, the last one
\* written by assign
C1_Witness ==
    \E i \in IssueIds :
        /\ Len(timeline[i]) = 3
        /\ LastRow(i).note.text = "Assigned to"
        /\ issues[i].status \in {"in-progress", "resolved"}

\* C2: for every issue, resolved_at is non-null if and only if status is
\* resolved.
C2_ResolvedAtIffResolved ==
    \A i \in IssueIds :
        (issues[i].resolved_at # NULL) <=> (issues[i].status = "resolved")

\* the users C3 is about
C3_Outsider(u, i) ==
    /\ ~is_staff(u) /\ ~is_superuser(u)
    /\ u # issues[i].reporter
    /\ u # issues[i].assigned_resolver

\* C3: PATCH status by an authenticated user who is not staff/admin, not
\* the reporter and not the assigned resolver is answered 403 and changes
\* neither the issue nor its timeline.
C3_OutsiderRefused ==
    /\ [](\A u \in users, i \in IssueIds, s \in StatusInputs :
            C3_Outsider(u, i)
                => UpdateStatusReply(u, i, s).code = HTTP_403_FORBIDDEN)
    /\ [][\A u \in users, i \in IssueIds, s \in StatusInputs, n \in Notes :
            (C3_Outsider(u, i) /\ UpdateStatus(u, i, s, n))
                => UNCHANGED <<issues, timeline>>]_vars

\* a resolver whose profile is not verified
C4_Unverified(u) ==
    role(u) = "resolver" /\ has_resolver_profile(u) /\ ~is_verified[u]

\* C4: every accept, complete, PATCH status and official-response request
\* of a resolver whose profile is not verified is rejected and changes no
\* issue.
C4_UnverifiedResolverGated ==
    /\ [](\A u \in users, i \in IssueIds :
            C4_Unverified(u) =>
                /\ ~Success(AcceptReply(u, i))
                /\ ~Success(CompleteReply(u, i))
                /\ ~Success(OfficialResponseReply(u, i))
                /\ \A s \in StatusInputs : ~Success(UpdateStatusReply(u, i, s)))
    /\ [][\A u \in users, i \in IssueIds :
            (/\ C4_Unverified(u)
             /\ \/ Accept(u, i)
                \/ OfficialResponse(u, i)
                \/ \E n \in Notes : Complete(u, i, n)
                \/ \E s \in StatusInputs, n \in Notes : UpdateStatus(u, i, s, n))
                => UNCHANGED <<issues, timeline, official>>]_vars

C11_PatchAppendsOneRow ==
    [][\A u \in Users, i \in IssueIds, s \in StatusInputs, n \in Notes :
          UpdateStatus(u, i, s, n) =>
              IF u \in users /\ s \in Statuses
              THEN /\ timeline' = [timeline EXCEPT ![i] =
                          Append(@, [status |-> s, note |-> Note(n, NoUser),
                                     updated_by |-> u])]
                   /\ issues'[i].status = s
              ELSE UNCHANGED <<issues, timeline>>]_vars

\* an issue whose second row was written by a PATCH of someone other than
\* the reporter, with a note
C11_Witness ==
    \E i \in IssueIds :
        /\ Len(timeline[i]) >= 2
        /\ timeline[i][2] = [status |-> "in-progress", note |-> Note("n", NoUser),
                             updated_by |-> "c1"]
        /\ issues[i].reporter = "a1"
        /\ issues[i].status = LastRow(i).status

\* C12: while an issue exists its timeline is append-only: a step neither
\* removes a row of the issue nor changes a field of one.
C12_TimelineAppendOnly ==
    [][\A i \in IssueIds :
          i \in DOMAIN issues' =>
              /\ Len(timeline'[i]) >= Len(timeline[i])
              /\ \A k \in 1..Len(timeline[i]) : timeline'[i][k] = timeline[i][k]]_vars

\* C16: an accepted creation adds one issue: status reported, the three
\* counters 0, no assigned resolver, no resolved_at, the requester as
\* reporter, and a timeline of exactly one row, with status reported and the
\* reporter as actor.
C16_CreatedIssueIsFresh ==
    [][\A u \in Users :
          CreateIssue(u) =>
              /\ Cardinality(DOMAIN issues' \ DOMAIN issues) = 1
              /\ \A i \in DOMAIN issues' \ DOMAIN issues :
                    /\ issues'[i].status = "reported"
                    /\ issues'[i].upvote_count = 0
                    /\ issues'[i].comment_count = 0
                    /\ issues'[i].share_count = 0
                    /\ issues'[i].assigned_resolver = NoUser
                    /\ issues'[i].resolved_at = NULL
                    /\ issues'[i].reporter = u
                    /\ Len(timeline'[i]) = 1
                    /\ timeline'[i][1].status = "reported"
                    /\ timeline'[i][1].updated_by = u]_vars

\* an issue just created by the admin, after an earlier issue was deleted
C16_Witness ==
    \E i \in IssueIds :
        /\ issues[i].created_at > 1
        /\ issues[i].reporter = "a1"
        /\ issues[i].status = "reported"
        /\ Len(timeline[i]) = 1
        /\ timeline[i][1].updated_by = "a1"
        /\ \A x \in upvotes : x[2] # i

\* C17: a write on /issues/{id}/ is accepted only from the issue's reporter;
\* refused, it changes nothing; an accepted PUT/PATCH changes, of the fields
\* modelled, the urgency only: status, assigned_resolver, resolved_at, the
\* three counters, the reporter and the timeline stay, like every other issue.
C17_OnlyReporterEdits ==
    [][\A u \in Users, i \in IssueIds :
          /\ \A g \in Urgencies :
                EditIssue(u, i, g) =>
                    IF u = issues[i].reporter
                    THEN /\ issues' = [issues EXCEPT ![i].urgency = issues'[i].urgency]
                         /\ issues'[i].urgency = g
                         /\ UNCHANGED <<timeline, official, upvotes, bookmarks, comments>>
                    ELSE UNCHANGED <<issues, timeline, official, upvotes, bookmarks,
                                     comments>>
          /\ IssueDestroy(u, i) =>
                IF u = issues[i].reporter
                THEN i \notin DOMAIN issues'
                ELSE UNCHANGED <<issues, timeline, official, upvotes, bookmarks,
                                 comments>>]_vars

\* after an issue was deleted: an upvoted, resolved issue reported by the
\* citizen, with another urgency than it was created with
C17_Witness ==
    \E i \in IssueIds :
        /\ issues[i].reporter = "c1"
        /\ issues[i].urgency = "high"
        /\ issues[i].created_at > 1
        /\ issues[i].status = "resolved"
        /\ issues[i].upvote_count = 1
        /\ Len(timeline[i]) = 2

(***************************************************************************)
(* Comment claims.                                                         *)
(***************************************************************************)
\* C18: a DELETE of a comment, top-level or reply, on the issue it belongs
\* to is accepted from its author and from a staff user, and answered 403
\* to every other user.
C18_AuthorOrStaffDeletes ==
    \A u \in users, c \in DOMAIN comments :
        LET reply == CommentDestroyReply(u, comments[c].issue, c) IN
        IF comments[c].author = u \/ is_staff(u)
        THEN Success(reply)
        ELSE reply.code = HTTP_403_FORBIDDEN

\* C19: the parent of a comment has no parent itself.
C19_OneLevelOfReplies ==
    \A c \in DOMAIN comments :
        comments[c].parent # NoParent =>
            /\ comments[c].parent \in DOMAIN comments
            /\ comments[comments[c].parent].parent = NoParent

(***************************************************************************)
(* Notification claims.                                                    *)
(***************************************************************************)
\* the rows of type t that a step adds to the notification table
NewOfType(t) == {k \in DOMAIN notifications' \ DOMAIN notifications : notifications'[k].type = t}

\* C13: an accepted status transition creates exactly one status_update
\* notification addressed to the reporter, and one resolution notification
\* exactly when the new status is resolved.
C13_StatusChangeNotifies ==
    [][\A u \in Users, i \in IssueIds, s \in Statuses, n \in Notes :
          (UpdateStatus(u, i, s, n) /\ Success(UpdateStatusReply(u, i, s))) =>
              /\ Cardinality(NewOfType("status_update")) = 1
              /\ \A k \in NewOfType("status_update") :
                     notifications'[k].user = issues[i].reporter
              /\ Cardinality(NewOfType("resolution")) = (IF s = "resolved" THEN 1 ELSE 0)]_vars

\* C14: an accepted assignment creates exactly one assignment notification,
\* addressed to the newly assigned resolver.
C14_AssignNotifies ==
    [][\A u \in Users, i \in IssueIds, r \in Users :
          (Assign(u, i, r) /\ Success(AssignReply(u, i, r))) =>
              /\ Cardinality(NewOfType("assignment")) = 1
              /\ \A k \in NewOfType("assignment") : notifications'[k].user = r]_vars

\* the notifications addressed to u
Inbox(ns, u) == {ns[k] : k \in {j \in DOMAIN ns : ns[j].user = u}}

\* C15: the reporter's own comment or upvote on their issue, the request and
\* the factory applied to its row, leaves the notifications addressed to the
\* reporter as they were; no comment or upvote notification has its actor
\* as recipient.
C15_SelfActionSuppressed ==
    [][/\ \A i \in IssueIds :
             LET u == issues[i].reporter IN
             (\/ Upvote(u, i)
              \/ \E p \in 0..MaxComments : CommentCreate(u, i, p)
              \/ NotifyUpvote(u, i)
              \/ \E c \in DOMAIN comments :
                     comments[c].issue = i /\ comments[c].author = u /\ NotifyComment(c))
             => Inbox(notifications', u) = Inbox(notifications, u)
       /\ \A k \in DOMAIN notifications' :
             notifications'[k].type \in {"comment", "upvote"}
                 => notifications'[k].user # notifications'[k].actor]_vars

\* the reporter upvoted and commented on their own issue, and the inbox
\* holds the notifications of another user's upvote and comment
C15_Witness ==
    \E i \in IssueIds :
        LET u == issues[i].reporter IN
        /\ <<u, i>> \in upvotes
        /\ \E c \in DOMAIN comments : comments[c].issue = i /\ comments[c].author = u
        /\ \E k \in DOMAIN notifications :
               notifications[k].type = "upvote" /\ notifications[k].user = u
        /\ \E k \in DOMAIN notifications :
               notifications[k].type = "comment" /\ notifications[k].user = u

\* C20: a request of the notification endpoints leaves recipient, type,
\* title, message, issue and actor of every notification it keeps; only read
\* may differ.
C20_OnlyReadChanges ==
    [][(PatchANotification \/ MarkARead \/ MarkAllAsRead \/ DestroyANotification) =>
          \A k \in DOMAIN notifications \cap DOMAIN notifications' :
              [notifications'[k] EXCEPT !.read = notifications[k].read] = notifications[k]]_vars

\* C21: POST /notifications/read-all/ of a user with unread notifications is
\* accepted (and marks them).
C21_ReadAllMarksOwnUnread ==
    \A u \in users :
        (\E k \in DOMAIN notifications : notifications[k].user = u /\ ~notifications[k].read)
            => Success(MarkAllReadReply(u))

(***************************************************************************)
(* Claims on the content of comments.                                      *)
(***************************************************************************)
\* C30: an update of a comment sent by a user who is not its author, when
\* it is accepted, leaves the content of the comment as it is.
C30_OnlyAuthorRewrites ==
    \A c \in DOMAIN comments, u \in users :
        (u # comments[c].author
            /\ Success(CommentUpdateReply(u, comments[c].issue, c)))
        => ContentAfterUpdate(comments[c], "edited") = comments[c].content

(***************************************************************************)
(* Claims on issue identifiers.                                            *)
(***************************************************************************)
\* C29: the id a created issue gets was given to no issue before, and the
\* first issue ever created gets FirstIssueNumber (TS-1000).
C29_IdsNeverReused ==
    [][\A i \in IssueIds' \ IssueIds :
          /\ i \notin issued
          /\ issued = {} => i = FirstIssueNumber]_vars

(***************************************************************************)
(* Claims on requests whose statements interleave.                         *)
(***************************************************************************)
\* the rows of an issue's timeline that an accept wrote
AcceptanceRows(i) ==
    {k \in DOMAIN timeline[i] : timeline[i][k].status = "acknowledged"}

\* the last request of u was an accept of issue i that returned success
AcceptReturnedSuccess(u, i) ==
    /\ InFlight(u, "accept", "returned")
    /\ inflight[u].issue = i
    /\ Success(inflight[u].reply)

\* C25: when the accept requests of two resolvers on one unassigned issue
\* have both returned success, the timeline of the issue holds two
\* acceptance rows and assigned_resolver is the resolver who wrote last.
C25_BothAcceptsSucceed ==
    \A i \in IssueIds :
        (AcceptReturnedSuccess("r1", i) /\ AcceptReturnedSuccess("r2", i))
            => /\ Cardinality(AcceptanceRows(i)) = 2
               /\ issues[i].assigned_resolver
                      = timeline[i][Len(timeline[i])].updated_by

C25_Witness ==
    \E i \in IssueIds :
        /\ AcceptReturnedSuccess("r1", i)
        /\ AcceptReturnedSuccess("r2", i)
        /\ issues[i].assigned_resolver = "r1"

\* C26: right after an upvote toggle that ran as one step, upvote_count of
\* its issue equals the number of Upvote rows of the issue, whatever the
\* interleaved toggles before it left in the counter.
C26_ToggleRepairsCount ==
    prev.op = "upvote"
        => issues[prev.target].upvote_count
               = Cardinality(UpvoteRows(upvotes, prev.target))

\* every interleaved toggle has finished and left upvote_count different
\* from the number of rows, and the toggle after them has run
C26_Witness ==
    /\ prev.op = "upvote"
    /\ \A u \in users : Idle(u)
    /\ LET before == prev.seq[Len(prev.seq)]
           rows == Cardinality(UpvoteRows(upvotes, prev.target))
       IN  before.count # (IF before.member THEN rows + 1 ELSE rows - 1)

\* the engagement counters of a row
Counters(row) == <<row.upvote_count, row.comment_count, row.share_count>>

\* C27: the statement with which an accept or a PATCH status writes the
\* issue leaves upvote_count, comment_count and share_count of every issue
\* as they are stored, also when engagement requests ran since the request
\* loaded the issue.
C27_WorkflowKeepsCounters ==
    [][\A u \in users :
          (AcceptSave(u) \/ UpdateStatusSave(u))
              => \A i \in IssueIds : Counters(issues'[i]) = Counters(issues[i])]_vars

\* C28: an accept request on an issue whose status is in-progress or
\* resolved leaves status and resolved_at of the issue as they are.
C28_AcceptOnlyForward ==
    [][\A u \in users, i \in IssueIds :
          (AcceptOutsideRun(u, i) /\ issues[i].status \in {"in-progress", "resolved"})
              => /\ issues'[i].status = issues[i].status
                 /\ issues'[i].resolved_at = issues[i].resolved_at]_vars

(***************************************************************************)
(* Claims on the issue and progress apps.                                  *)
(***************************************************************************)
\* C22: of the users who are not staff, the creator's update to resolved is
\* refused as a validation error and the creator's update to in_progress is
\* accepted, any other user's update is refused with 403; a staff user's
\* update to resolved or closed is accepted.
C22_OnlyStaffResolves ==
    \A pk \in DOMAIN created_issues, u \in users :
        IF is_staff(u)
        THEN /\ Success(IssueUpdateReply(u, pk, "resolved"))
             /\ Success(IssueUpdateReply(u, pk, "closed"))
        ELSE IF u = created_issues[pk].created_by
        THEN /\ IssueUpdateReply(u, pk, "resolved").code = HTTP_400_BAD_REQUEST
             /\ Success(IssueUpdateReply(u, pk, "in_progress"))
        ELSE IssueUpdateReply(u, pk, "resolved").code = HTTP_403_FORBIDDEN

\* C23: a step that changes an issue's status to resolved leaves the acting
\* user as resolved_by, and one that changes it from resolved or closed to
\* open leaves resolved_by empty, whether the step is an issue update or the
\* save of a progress update.
C23_ResolvedByFollowsStatus ==
    [][\A pk \in DOMAIN created_issues, u \in Users, s \in STATUS_CHOICES :
          (\/ IssueUpdate(u, pk, s)
           \/ ProgressCreate(u, pk, s)
           \/ \E q \in DOMAIN progress_updates :
                  progress_updates[q].issue = pk /\ ProgressUpdate(u, q, s))
          => /\ (created_issues'[pk].status = "resolved"
                    /\ created_issues[pk].status # "resolved")
                 => created_issues'[pk].resolved_by = u
             /\ (created_issues'[pk].status = "open"
                    /\ created_issues[pk].status \in {"resolved", "closed"})
                 => created_issues'[pk].resolved_by = NoUser]_vars

\* C24: POST /progress/new/ for an issue is answered 201 to the issue's
\* reporter and to a staff user, and refused to every other user.
C24_ReporterAddsProgress ==
    \A pk \in DOMAIN created_issues, u \in users :
        IF u = created_issues[pk].created_by \/ is_staff(u)
        THEN ProgressCreateReply(u, pk, "in_progress").code = HTTP_201_CREATED
        ELSE ~Success(ProgressCreateReply(u, pk, "in_progress"))

(***************************************************************************)
(* Engagement claims.                                                      *)
(***************************************************************************)
\* whether the row the last toggle is about exists, and the counter it
\* maintains (a bookmark maintains none)
ToggleMember ==
    CASE prev.op = "upvote" -> <<prev.user, prev.target>> \in upvotes
      [] prev.op = "bookmark" -> <<prev.user, prev.target>> \in bookmarks
      [] prev.op = "like" -> <<prev.user, prev.target>> \in likes

ToggleCounter ==
    CASE prev.op = "upvote" -> issues[prev.target].upvote_count
      [] prev.op = "bookmark" -> 0
      [] prev.op = "like" -> comments[prev.target].like_count

\* C6: after two consecutive toggles of one kind by one user on one
\* target, the user's membership row and the denormalized counter are as
\* they were before the first toggle, and the two responses carry opposite
\* active flags.
C6_ToggleTwiceRestores ==
    (prev.op # "none" /\ Len(prev.seq) = 2) =>
        /\ ToggleMember = prev.seq[1].member
        /\ ToggleCounter = prev.seq[1].count
        /\ prev.seq[1].flag # prev.seq[2].flag

\* C7: every issue's upvote_count is the number of Upvote rows that
\* reference the issue.
C7_UpvoteCountIsRowCount ==
    \A i \in IssueIds : issues[i].upvote_count = Cardinality(UpvoteRows(upvotes, i))

\* C8: every issue's comment_count is the number of Comment rows that
\* belong to the issue.
C8_CommentCountIsRowCount ==
    \A i \in IssueIds : issues[i].comment_count = Cardinality(CommentRows(comments, i))

\* C9: every comment's like_count is the number of CommentLike rows for
\* the comment.
C9_LikeCountIsRowCount ==
    \A c \in DOMAIN comments :
        comments[c].like_count = Cardinality(LikeRows(likes, c))

\* C10: when an issue is resolved and a further request leaves it resolved,
\* resolved_at keeps the value of the first resolution.
C10_ResolvedAtKept ==
    [][\A i \in IssueIds :
          (issues[i].status = "resolved" /\ issues'[i].status = "resolved")
              => issues'[i].resolved_at = issues[i].resolved_at]_vars
====
